---- MODULE Spec2Model ----
(***************************************************************************)
(* Parallel merge sort with pthreads (mergesort.c) and its driver          *)
(* (test-parallel-mergesort.c).                                            *)
(*                                                                         *)
(* One task is one activation of parallel_mergesort.  Task 1 is the root   *)
(* activation, which the driver calls directly on its own thread; the      *)
(* children of task t are the threads 2t (left half) and 2t+1 (right       *)
(* half).  Array indices are the zero-based indices of the C code.  Every  *)
(* array element is a pair <<key, tag>>: key is the int the code compares, *)
(* tag is the element's index in the input and is never read by the code.  *)
(***************************************************************************)
EXTENDS Integers, Sequences, FiniteSets, TLC

\* Bounds of the model.
MaxN == 4
MaxKey == 1
MaxCutoff == 2
MaxStack == 6

VARIABLES
    N,        \* the length of A and B (size in the driver)
    cutoff,   \* the global cutoff
    input,    \* the contents of A when the driver calls the sort
    A,        \* the global array A
    B,        \* the global scratch array B
    bufLive,  \* TRUE until the driver frees A and B
    pc,       \* pc[t]: where task t stands in parallel_mergesort
    desc,     \* desc[t]: the struct argument handed to task t
    freed,    \* freed[t]: how often parallel_mergesort called free on desc[t]
    driverFreed, \* how often the driver called free on the root argument
    loc,      \* loc[t]: the locals left, right, level of task t
    via,      \* via[t]: the branch task t took
    tid,      \* tid[t]: the locals t1 and t2 of task t
    stack,    \* stack[t]: the activations of my_mergesort on task t's thread
    mrg,      \* mrg[t]: the activation of merge on task t's thread
    failed,   \* the tasks whose pthread_create failed
    crashed   \* TRUE once the process has been killed

vars == <<N, cutoff, input, A, B, bufLive, pc, desc, freed, driverFreed, loc,
          via, tid, stack, mrg, failed, crashed>>

RECURSIVE Pow2(_)
Pow2(n) == IF n <= 0 THEN 1 ELSE 2 * Pow2(n - 1)

Root == 1
\* Thread identities: a task at level l <= MaxCutoff has an identity below 2^(l+1)
Tasks == 1 .. (Pow2(MaxCutoff + 1) - 1)
LeftChild(t) == 2 * t
RightChild(t) == 2 * t + 1

Key(e) == e[1]
Tag(e) == e[2]

NoDesc == [left |-> -1, right |-> -1, level |-> -1, live |-> FALSE]
NoMerge == [on |-> FALSE]
Uninit == 0
Junk == <<-1, -1>>

\* struct argument *buildArgs(int left, int right, int level)
buildArgs(left, right, level) ==
    [left |-> left, right |-> right, level |-> level, live |-> TRUE]

\* int mid = left + (right - left) / 2;
\* Faulty variant: the midpoint is rounded up
Mid_High(left, right) == left + ((right - left + 1) \div 2)

Mid(left, right) == left + ((right - left) \div 2)

\* Faulty variant: the trivial test is left > right
TrivialRange_Strict(left, right) == left > right

\* parallel_mergesort: if (left >= right) { ... return NULL; }
TrivialRange(left, right) == left >= right

\* Faulty variant: the base case tests left > right
BaseCase_Strict(left, right) == left > right

\* my_mergesort: if (left >= right) return;
BaseCase(left, right) == left >= right

\* Faulty variant: the comparison is reversed
TakeLeft_Reversed(x, y) == Key(x) >= Key(y)

\* Faulty variant: the comparison is strict, so a tie takes the right element
TakeLeft_Strict(x, y) == Key(x) < Key(y)

\* (A[i] <= A[j]) ? A[i++] : A[j++]
TakeLeft(x, y) == Key(x) <= Key(y)

\* Faulty variant: the memcpy is one element long
CopyLen_Long(leftstart, rightend) == rightend - leftstart + 2

\* Faulty variant: the memcpy is one element short
CopyLen_Short(leftstart, rightend) == rightend - leftstart

\* the element count of memcpy: rightend - leftstart + 1
CopyLen(leftstart, rightend) == rightend - leftstart + 1

\* Faulty variant: the cutoff test is level > cutoff
SpawnAllowed_OffByOne(level) == ~(level > cutoff)

\* if (level >= cutoff) { serial } else { fan out }
SpawnAllowed(level) == ~(level >= cutoff)

\* Faulty variant: the free is guarded by level > 1
ShouldFree_Leak(level) == level > 1

\* Faulty variant: the free is not guarded
ShouldFree_Always(level) == level >= 0

\* if (level > 0) free(a);
ShouldFree(level) == level > 0

\* Faulty variant: the right child starts at mid
RightChildLeft_Overlap(mid) == mid

\* buildArgs(mid + 1, right, level + 1): the left end of the right child
RightChildLeft(mid) == mid + 1

\* Faulty variant: the join does not wait
JoinReady_NoWait(c) == pc[c] # "none"

\* pthread_join(c, NULL) returns once thread c has returned
JoinReady(c) == pc[c] = "done"

\* the locals of merge on entry
MergeStart(leftstart, leftend, rightstart, rightend) ==
    [on |-> TRUE, ls |-> leftstart, le |-> leftend, rs |-> rightstart,
     re |-> rightend, i |-> leftstart, j |-> rightstart, k |-> leftstart]

\* merge, lines 30, 35, 39: one of the three loop conditions holds
LoopRunning(m) == m.i <= m.le \/ m.j <= m.re

\* merge, lines 30-40: the body of the loop that is running, B[k++] = ...
MergeIter(a, b, m) ==
    IF m.i <= m.le /\ m.j <= m.re
    THEN IF TakeLeft(a[m.i], a[m.j])
         THEN [b |-> [b EXCEPT ![m.k] = a[m.i]], m |-> [m EXCEPT !.i = m.i + 1, !.k = m.k + 1]]
         ELSE [b |-> [b EXCEPT ![m.k] = a[m.j]], m |-> [m EXCEPT !.j = m.j + 1, !.k = m.k + 1]]
    ELSE IF m.i <= m.le
         THEN [b |-> [b EXCEPT ![m.k] = a[m.i]], m |-> [m EXCEPT !.i = m.i + 1, !.k = m.k + 1]]
         ELSE [b |-> [b EXCEPT ![m.k] = a[m.j]], m |-> [m EXCEPT !.j = m.j + 1, !.k = m.k + 1]]

\* merge, line 43: memcpy(&A[leftstart], &B[leftstart], (rightend - leftstart + 1) * sizeof(int))
CopyBack(a, b, m) ==
    [x \in DOMAIN a |->
        IF m.ls <= x /\ x < m.ls + CopyLen(m.ls, m.re) THEN b[x] ELSE a[x]]

\* merge as a function of the arrays A and B: the three loops, then the memcpy
RECURSIVE MergeLoops(_, _, _)
MergeLoops(a, b, m) ==
    IF LoopRunning(m)
    THEN MergeLoops(a, MergeIter(a, b, m).b, MergeIter(a, b, m).m)
    ELSE [a |-> CopyBack(a, b, m), b |-> b]

merge(ab, leftstart, leftend, rightstart, rightend) ==
    MergeLoops(ab.a, ab.b, MergeStart(leftstart, leftend, rightstart, rightend))

\* my_mergesort as a function of the arrays A and B
RECURSIVE my_mergesort(_, _, _)
my_mergesort(ab, left, right) ==
    IF BaseCase(left, right)
    THEN ab
    ELSE LET mid == Mid(left, right)
         IN  merge(my_mergesort(my_mergesort(ab, left, mid), mid + 1, right),
                   left, mid, mid + 1, right)

Frame(left, right, at) == [left |-> left, right |-> right, at |-> at]
Top(t) == stack[t][Len(stack[t])]
Pop(s) == SubSeq(s, 1, Len(s) - 1)
SetTop(s, at) == [s EXCEPT ![Len(s)].at = at]

Init ==
    /\ N \in 0 .. MaxN
    /\ cutoff \in 0 .. MaxCutoff
    /\ \E keys \in [0 .. N - 1 -> 0 .. MaxKey] :
          input = [x \in 0 .. N - 1 |-> <<keys[x], x>>]
    /\ A = input
    /\ B = [x \in 0 .. N - 1 |-> Junk]
    /\ bufLive = TRUE
    /\ pc = [t \in Tasks |-> IF t = Root THEN "entry" ELSE "none"]
    /\ desc = [t \in Tasks |-> IF t = Root THEN buildArgs(0, N - 1, 0) ELSE NoDesc]
    /\ freed = [t \in Tasks |-> 0]
    /\ driverFreed = 0
    /\ loc = [t \in Tasks |-> NoDesc]
    /\ via = [t \in Tasks |-> "none"]
    /\ tid = [t \in Tasks |-> <<Uninit, Uninit>>]
    /\ stack = [t \in Tasks |-> <<>>]
    /\ mrg = [t \in Tasks |-> NoMerge]
    /\ failed = {}
    /\ crashed = FALSE

\* A recursive call of my_mergesort on task t's thread pushes a frame; the
\* thread's stack is finite, and a call that does not fit kills the process.
Call(t, s, frame) ==
    IF Len(s) >= MaxStack
    THEN /\ crashed' = TRUE
         /\ UNCHANGED stack
    ELSE /\ stack' = [stack EXCEPT ![t] = Append(s, frame)]
         /\ UNCHANGED crashed

\* if (level > 0) free(a); return NULL;
FreeAndReturn(t, level) ==
    /\ IF ShouldFree(level)
       THEN /\ freed' = [freed EXCEPT ![t] = freed[t] + 1]
            /\ desc' = [desc EXCEPT ![t].live = FALSE]
       ELSE UNCHANGED <<freed, desc>>
    /\ pc' = [pc EXCEPT ![t] = "done"]

\* parallel_mergesort, lines 94-105: left >= right, free and return
Trivial(t) ==
    /\ ~crashed
    /\ pc[t] = "entry"
    /\ TrivialRange(desc[t].left, desc[t].right)
    /\ loc' = [loc EXCEPT ![t] = desc[t]]
    /\ via' = [via EXCEPT ![t] = "trivial"]
    /\ FreeAndReturn(t, desc[t].level)
    /\ UNCHANGED <<N, cutoff, input, A, B, bufLive, driverFreed,
                   tid, stack, mrg, failed, crashed>>

\* parallel_mergesort, lines 94-109: level >= cutoff, my_mergesort is called
SerialFallback(t) ==
    /\ ~crashed
    /\ pc[t] = "entry"
    /\ ~TrivialRange(desc[t].left, desc[t].right)
    /\ ~SpawnAllowed(desc[t].level)
    /\ loc' = [loc EXCEPT ![t] = desc[t]]
    /\ via' = [via EXCEPT ![t] = "serial"]
    /\ stack' = [stack EXCEPT ![t] = <<Frame(desc[t].left, desc[t].right, "call")>>]
    /\ pc' = [pc EXCEPT ![t] = "serial"]
    /\ UNCHANGED <<N, cutoff, input, A, B, bufLive, desc, freed, driverFreed,
                   tid, mrg, failed, crashed>>

\* parallel_mergesort, lines 94-119: mid and the two buildArgs calls
FanOut(t) ==
    /\ ~crashed
    /\ pc[t] = "entry"
    /\ ~TrivialRange(desc[t].left, desc[t].right)
    /\ SpawnAllowed(desc[t].level)
    /\ RightChild(t) \in Tasks
    /\ LET left == desc[t].left
           right == desc[t].right
           level == desc[t].level
           mid == Mid(left, right)
       IN  desc' = [desc EXCEPT
                       ![LeftChild(t)] = buildArgs(left, mid, level + 1),
                       ![RightChild(t)] = buildArgs(RightChildLeft(mid), right, level + 1)]
    /\ loc' = [loc EXCEPT ![t] = desc[t]]
    /\ via' = [via EXCEPT ![t] = "fanout"]
    /\ pc' = [pc EXCEPT ![t] = "create1"]
    /\ UNCHANGED <<N, cutoff, input, A, B, bufLive, freed, driverFreed,
                   tid, stack, mrg, failed, crashed>>

\* pthread_create(&t1, NULL, parallel_mergesort, leftArg) succeeds
Create1(t) ==
    /\ ~crashed
    /\ pc[t] = "create1"
    /\ tid' = [tid EXCEPT ![t][1] = LeftChild(t)]
    /\ pc' = [pc EXCEPT ![t] = "create2", ![LeftChild(t)] = "entry"]
    /\ UNCHANGED <<N, cutoff, input, A, B, bufLive, desc, freed, driverFreed,
                   loc, via, stack, mrg, failed, crashed>>

\* pthread_create(&t2, NULL, parallel_mergesort, rightArg) succeeds
Create2(t) ==
    /\ ~crashed
    /\ pc[t] = "create2"
    /\ tid' = [tid EXCEPT ![t][2] = RightChild(t)]
    /\ pc' = [pc EXCEPT ![t] = "join1", ![RightChild(t)] = "entry"]
    /\ UNCHANGED <<N, cutoff, input, A, B, bufLive, desc, freed, driverFreed,
                   loc, via, stack, mrg, failed, crashed>>

\* pthread_join(t1, NULL)
Join1(t) ==
    /\ ~crashed
    /\ pc[t] = "join1"
    /\ tid[t][1] # Uninit
    /\ JoinReady(tid[t][1])
    /\ pc' = [pc EXCEPT ![t] = "join2"]
    /\ UNCHANGED <<N, cutoff, input, A, B, bufLive, desc, freed, driverFreed,
                   loc, via, tid, stack, mrg, failed, crashed>>

\* pthread_join(t2, NULL), then the call merge(left, mid, mid + 1, right)
Join2(t) ==
    /\ ~crashed
    /\ pc[t] = "join2"
    /\ tid[t][2] # Uninit
    /\ JoinReady(tid[t][2])
    /\ LET mid == Mid(loc[t].left, loc[t].right)
       IN  mrg' = [mrg EXCEPT ![t] = MergeStart(loc[t].left, mid, mid + 1, loc[t].right)]
    /\ pc' = [pc EXCEPT ![t] = "merge"]
    /\ UNCHANGED <<N, cutoff, input, A, B, bufLive, desc, freed, driverFreed,
                   loc, via, tid, stack, failed, crashed>>

\* merge, lines 30-40: one iteration of whichever of the three loops is running
MergeLoop(t) ==
    /\ ~crashed
    /\ pc[t] \in {"merge", "serial"}
    /\ mrg[t].on
    /\ LoopRunning(mrg[t])
    /\ B' = MergeIter(A, B, mrg[t]).b
    /\ mrg' = [mrg EXCEPT ![t] = MergeIter(A, B, mrg[t]).m]
    /\ UNCHANGED <<N, cutoff, input, A, bufLive, pc, desc, freed, driverFreed,
                   loc, via, tid, stack, failed, crashed>>

\* merge, line 43: memcpy(&A[leftstart], &B[leftstart], ...), and merge returns
MergeCopyBack(t) ==
    /\ ~crashed
    /\ pc[t] \in {"merge", "serial"}
    /\ mrg[t].on
    /\ ~LoopRunning(mrg[t])
    /\ A' = CopyBack(A, B, mrg[t])
    /\ mrg' = [mrg EXCEPT ![t] = NoMerge]
    /\ pc' = [pc EXCEPT ![t] = IF pc[t] = "merge" THEN "ret" ELSE "serial"]
    /\ UNCHANGED <<N, cutoff, input, B, bufLive, desc, freed, driverFreed,
                   loc, via, tid, stack, failed, crashed>>

\* my_mergesort, lines 58-59: left >= right, return
SerialBase(t) ==
    /\ ~crashed
    /\ pc[t] = "serial"
    /\ ~mrg[t].on
    /\ stack[t] # <<>>
    /\ Top(t).at = "call"
    /\ BaseCase(Top(t).left, Top(t).right)
    /\ stack' = [stack EXCEPT ![t] = Pop(stack[t])]
    /\ UNCHANGED <<N, cutoff, input, A, B, bufLive, pc, desc, freed, driverFreed,
                   loc, via, tid, mrg, failed, crashed>>

\* my_mergesort, lines 58-64: the call my_mergesort(left, mid)
SerialLeft(t) ==
    /\ ~crashed
    /\ pc[t] = "serial"
    /\ ~mrg[t].on
    /\ stack[t] # <<>>
    /\ Top(t).at = "call"
    /\ ~BaseCase(Top(t).left, Top(t).right)
    /\ LET f == Top(t)
       IN  Call(t, SetTop(stack[t], "left"), Frame(f.left, Mid(f.left, f.right), "call"))
    /\ UNCHANGED <<N, cutoff, input, A, B, bufLive, pc, desc, freed, driverFreed,
                   loc, via, tid, mrg, failed>>

\* my_mergesort, line 65: the call my_mergesort(mid + 1, right)
SerialRight(t) ==
    /\ ~crashed
    /\ pc[t] = "serial"
    /\ ~mrg[t].on
    /\ stack[t] # <<>>
    /\ Top(t).at = "left"
    /\ LET f == Top(t)
       IN  Call(t, SetTop(stack[t], "right"), Frame(Mid(f.left, f.right) + 1, f.right, "call"))
    /\ UNCHANGED <<N, cutoff, input, A, B, bufLive, pc, desc, freed, driverFreed,
                   loc, via, tid, mrg, failed>>

\* my_mergesort, line 68: the call merge(left, mid, mid + 1, right)
SerialMerge(t) ==
    /\ ~crashed
    /\ pc[t] = "serial"
    /\ ~mrg[t].on
    /\ stack[t] # <<>>
    /\ Top(t).at = "right"
    /\ LET f == Top(t)
           mid == Mid(f.left, f.right)
       IN  mrg' = [mrg EXCEPT ![t] = MergeStart(f.left, mid, mid + 1, f.right)]
    /\ stack' = [stack EXCEPT ![t] = SetTop(stack[t], "merge")]
    /\ UNCHANGED <<N, cutoff, input, A, B, bufLive, pc, desc, freed, driverFreed,
                   loc, via, tid, failed, crashed>>

\* my_mergesort, line 69: return after merge
SerialReturn(t) ==
    /\ ~crashed
    /\ pc[t] = "serial"
    /\ ~mrg[t].on
    /\ stack[t] # <<>>
    /\ Top(t).at = "merge"
    /\ stack' = [stack EXCEPT ![t] = Pop(stack[t])]
    /\ UNCHANGED <<N, cutoff, input, A, B, bufLive, pc, desc, freed, driverFreed,
                   loc, via, tid, mrg, failed, crashed>>

\* parallel_mergesort, lines 109-111: my_mergesort(left, right) has returned,
\* free and return
SerialDone(t) ==
    /\ ~crashed
    /\ pc[t] = "serial"
    /\ ~mrg[t].on
    /\ stack[t] = <<>>
    /\ FreeAndReturn(t, loc[t].level)
    /\ UNCHANGED <<N, cutoff, input, A, B, bufLive, driverFreed,
                   loc, via, tid, stack, mrg, failed, crashed>>

\* parallel_mergesort, lines 135-136: merge has returned, free and return
Return(t) ==
    /\ ~crashed
    /\ pc[t] = "ret"
    /\ FreeAndReturn(t, loc[t].level)
    /\ UNCHANGED <<N, cutoff, input, A, B, bufLive, driverFreed,
                   loc, via, tid, stack, mrg, failed, crashed>>

\* the driver after parallel_mergesort(arg): free(arg); free(A); free(B);
DriverFree ==
    /\ ~crashed
    /\ pc[Root] = "done"
    /\ bufLive
    /\ driverFreed' = driverFreed + 1
    /\ desc' = [desc EXCEPT ![Root].live = FALSE]
    /\ bufLive' = FALSE
    /\ UNCHANGED <<N, cutoff, input, A, B, pc, freed, loc, via, tid, stack, mrg,
                   failed, crashed>>

\* pthread_create(&t1, ...) fails (EAGAIN): t1 is left unset, no thread runs,
\* and the code does not look at the return value
CreateFail1(t) ==
    /\ ~crashed
    /\ pc[t] = "create1"
    /\ failed' = failed \cup {LeftChild(t)}
    /\ pc' = [pc EXCEPT ![t] = "create2"]
    /\ UNCHANGED <<N, cutoff, input, A, B, bufLive, desc, freed, driverFreed,
                   loc, via, tid, stack, mrg, crashed>>

\* pthread_create(&t2, ...) fails (EAGAIN)
CreateFail2(t) ==
    /\ ~crashed
    /\ pc[t] = "create2"
    /\ failed' = failed \cup {RightChild(t)}
    /\ pc' = [pc EXCEPT ![t] = "join1"]
    /\ UNCHANGED <<N, cutoff, input, A, B, bufLive, desc, freed, driverFreed,
                   loc, via, tid, stack, mrg, crashed>>

\* Where task t stands after a pthread_join that returned
AfterJoin(t) ==
    IF pc[t] = "join1"
    THEN /\ pc' = [pc EXCEPT ![t] = "join2"]
         /\ UNCHANGED mrg
    ELSE /\ pc' = [pc EXCEPT ![t] = "merge"]
         /\ LET mid == Mid(loc[t].left, loc[t].right)
            IN  mrg' = [mrg EXCEPT ![t] = MergeStart(loc[t].left, mid, mid + 1, loc[t].right)]

\* The handle task t is about to join
JoinHandle(t) == IF pc[t] = "join1" THEN tid[t][1] ELSE tid[t][2]

\* pthread_join on a pthread_t that was never set is undefined: it may return
\* an error at once (which the code does not look at), ...
JoinUnsetReturns(t) ==
    /\ ~crashed
    /\ pc[t] \in {"join1", "join2"}
    /\ JoinHandle(t) = Uninit
    /\ AfterJoin(t)
    /\ UNCHANGED <<N, cutoff, input, A, B, bufLive, desc, freed, driverFreed,
                   loc, via, tid, stack, failed, crashed>>

\* ... kill the process, ...
JoinUnsetCrashes(t) ==
    /\ ~crashed
    /\ pc[t] \in {"join1", "join2"}
    /\ JoinHandle(t) = Uninit
    /\ crashed' = TRUE
    /\ UNCHANGED <<N, cutoff, input, A, B, bufLive, pc, desc, freed, driverFreed,
                   loc, via, tid, stack, mrg, failed>>

\* ... or never return.
JoinUnsetHangs(t) ==
    /\ ~crashed
    /\ pc[t] \in {"join1", "join2"}
    /\ JoinHandle(t) = Uninit
    /\ pc' = [pc EXCEPT ![t] = "hung"]
    /\ UNCHANGED <<N, cutoff, input, A, B, bufLive, desc, freed, driverFreed,
                   loc, via, tid, stack, mrg, failed, crashed>>

TaskStep(t) ==
    \/ Trivial(t)
    \/ SerialFallback(t)
    \/ FanOut(t)
    \/ Create1(t)
    \/ Create2(t)
    \/ Join1(t)
    \/ Join2(t)
    \/ MergeLoop(t)
    \/ MergeCopyBack(t)
    \/ SerialBase(t)
    \/ SerialLeft(t)
    \/ SerialRight(t)
    \/ SerialMerge(t)
    \/ SerialReturn(t)
    \/ SerialDone(t)
    \/ Return(t)

Next ==
    \/ \E t \in Tasks : TaskStep(t)
    \/ DriverFree

Spec == Init /\ [][Next]_vars

\* The system with thread creation that can fail
FaultStep(t) ==
    \/ CreateFail1(t)
    \/ CreateFail2(t)
    \/ JoinUnsetReturns(t)
    \/ JoinUnsetCrashes(t)
    \/ JoinUnsetHangs(t)

NextFault ==
    \/ \E t \in Tasks : TaskStep(t)
    \/ \E t \in Tasks : FaultStep(t)
    \/ DriverFree

SpecFault == Init /\ [][NextFault]_vars

\* The scheduler runs some thread that can take a step: the least that fair
\* scheduling of every thread gives
FairSpec == Init /\ [][Next]_vars /\ WF_vars(Next)

(***************************************************************************)
(* Properties                                                              *)
(***************************************************************************)

\* The root call of parallel_mergesort has returned to the driver
RootReturned == pc[Root] = "done"

\* is_sorted(size) of the driver
is_sorted(arr) == \A x \in 0 .. N - 2 : ~(Key(arr[x]) > Key(arr[x + 1]))

KeyCount(arr, k) == Cardinality({x \in DOMAIN arr : Key(arr[x]) = k})
SameMultiset(arr, brr) == \A k \in 0 .. MaxKey : KeyCount(arr, k) = KeyCount(brr, k)

\* C1. Sortedness: when the root call returns, A[i] <= A[i+1] for every i in
\* [0, N-2], for every input, cutoff and interleaving.
C1_Sortedness == RootReturned => is_sorted(A)

C1_Witness ==
    /\ RootReturned
    /\ N >= 3
    /\ via[Root] = "fanout"
    /\ ~is_sorted(input)
    /\ is_sorted(A)

\* C2. Permutation: when the root call returns, A holds the values of the
\* input, each as often as the input holds it.
C2_Permutation ==
    RootReturned =>
        /\ SameMultiset(A, input)
        /\ {A[x] : x \in DOMAIN A} = {input[x] : x \in DOMAIN input}

C2_Witness ==
    /\ RootReturned
    /\ via[Root] = "fanout"
    /\ A # input
    /\ \E x, y \in DOMAIN input : x # y /\ Key(input[x]) = Key(input[y])

\* C3. Join barrier: a task that fanned out is in merge, or past it, only when
\* both of its children have returned.
C3_JoinBarrier ==
    \A t \in Tasks :
        (via[t] = "fanout" /\ pc[t] \in {"merge", "ret", "done"}) =>
            /\ pc[LeftChild(t)] = "done"
            /\ pc[RightChild(t)] = "done"

C3_Witness ==
    /\ pc[Root] = "merge"
    /\ mrg[Root].on
    /\ via[LeftChild(Root)] = "fanout"
    /\ via[RightChild(Root)] = "fanout"

\* A task is running when its thread exists, has not returned and is not in
\* pthread_join
Running(t) == pc[t] \in {"entry", "create1", "create2", "serial", "merge", "ret"}

\* The indices of A and of B the next step of task t reads or writes
AccA(t) ==
    IF ~mrg[t].on THEN {}
    ELSE LET m == mrg[t]
         IN  IF m.i <= m.le /\ m.j <= m.re THEN {m.i, m.j}
             ELSE IF m.i <= m.le THEN {m.i}
             ELSE IF m.j <= m.re THEN {m.j}
             ELSE {x \in 0 .. N - 1 : m.ls <= x /\ x < m.ls + CopyLen(m.ls, m.re)}

AccB(t) ==
    IF ~mrg[t].on THEN {}
    ELSE LET m == mrg[t]
         IN  IF LoopRunning(m) THEN {m.k}
             ELSE {x \in 0 .. N - 1 : m.ls <= x /\ x < m.ls + CopyLen(m.ls, m.re)}

\* The window of the merge in progress on task t's thread
Window(t) == IF mrg[t].on THEN mrg[t].ls .. mrg[t].re ELSE {}

Merging == {t \in Tasks : Running(t) /\ mrg[t].on}

\* C4. Race freedom: every access of a task to A or B is inside the range
\* [left, right] it was given, no two running tasks are about to access the
\* same index of A or of B, and no two merges in progress have overlapping
\* windows.
C4_RaceFree ==
    /\ \A t \in Merging :
          (AccA(t) \cup AccB(t) \cup Window(t)) \subseteq (loc[t].left .. loc[t].right)
    /\ \A t, u \in Merging :
          t # u =>
              /\ AccA(t) \cap AccA(u) = {}
              /\ AccB(t) \cap AccB(u) = {}
              /\ Window(t) \cap Window(u) = {}

C4_Witness ==
    \E t, u \in Merging :
        /\ t # u
        /\ mrg[t].k > mrg[t].ls
        /\ mrg[u].k > mrg[u].ls

\* C5, as the spec states it: every task that has returned, the root one too,
\* has released the descriptor it was given.
C5_EveryDescriptorReleased ==
    \A t \in Tasks : pc[t] = "done" => freed[t] = 1

\* C5, amended: a task that has returned has released its descriptor exactly
\* once if its level is above 0, whichever branch it took, and has not
\* released it if its level is 0: the root descriptor is still allocated when
\* the root call returns.
C5_ChildDescriptorsReleased ==
    \A t \in Tasks :
        pc[t] = "done" =>
            /\ freed[t] = (IF loc[t].level > 0 THEN 1 ELSE 0)
            /\ desc[t].live = (loc[t].level = 0 /\ driverFreed = 0)

C5_Witness ==
    /\ RootReturned
    /\ driverFreed = 0
    /\ desc[Root].live
    /\ \E t, u \in Tasks :
          /\ via[t] = "fanout" /\ pc[t] = "done" /\ freed[t] = 1
          /\ via[u] = "trivial" /\ pc[u] = "done" /\ freed[u] = 1

\* The tasks created by fan-out that have been started and have not returned
Live == {t \in Tasks \ {Root} : pc[t] \notin {"none", "done"}}

C7_CreateFailureIsFatal ==
    /\ \A t \in Tasks :
          ({LeftChild(t), RightChild(t)} \cap failed # {}) =>
              pc[t] \notin {"merge", "ret", "done"}
    /\ failed # {} => ~RootReturned

\* C8. Cutoff invariance: when the root call returns, A is what the serial
\* my_mergesort(0, N-1) makes of the input, for every cutoff and interleaving.
C8_CutoffInvariance ==
    RootReturned =>
        A = my_mergesort([a |-> input, b |-> [x \in DOMAIN input |-> Junk]], 0, N - 1).a

C8_Witness ==
    /\ RootReturned
    /\ cutoff = MaxCutoff
    /\ via[LeftChild(Root)] = "fanout"
    /\ A # input

\* Equal keys stand in the order of their places in the input
Stable(arr) ==
    \A x, y \in DOMAIN arr :
        (x < y /\ Key(arr[x]) = Key(arr[y])) => Tag(arr[x]) < Tag(arr[y])

\* C9. Stability: in every merge, a right-half element written to B before a
\* left-half element is strictly smaller than it (on a tie the left one goes
\* first); and when the root call returns, elements with equal keys are in
\* the order they had in the input.
C9_Stability ==
    /\ \A t \in Merging :
          LET m == mrg[t]
          IN  m.i <= m.le =>
                  \A y \in m.rs .. (m.j - 1) : Key(A[y]) < Key(A[m.i])
    /\ RootReturned => Stable(A)

C9_Witness ==
    /\ RootReturned
    /\ via[Root] = "fanout"
    /\ \E x, y, z \in DOMAIN input :
          /\ x < y /\ y < z
          /\ Key(input[x]) = Key(input[y])
          /\ Key(input[z]) < Key(input[y])

\* C10. Termination: under fair scheduling the root call returns, and the
\* recursion of my_mergesort on a range is never deeper than the range is long.
C10_Termination ==
    /\ <>RootReturned
    /\ [](\A t \in Tasks : Len(stack[t]) <= loc[t].right - loc[t].left + 1)

C10_Witness ==
    /\ RootReturned
    /\ via[Root] = "fanout"
    /\ \E t \in Tasks : via[t] = "serial" /\ Len(stack[t]) = 0 /\ pc[t] = "done"

\* Task t takes its step out of "entry" on a range with left >= right
TrivialStep(t) ==
    /\ pc[t] = "entry"
    /\ desc[t].left >= desc[t].right
    /\ pc'[t] # "entry"

\* C11. Trivial ranges are no-ops: a task whose range has left >= right
\* returns in its first step, whatever its level and the cutoff, and that step
\* changes no element of A or B, allocates no descriptor and starts no task.
C11_TrivialNoOp ==
    [][\A t \in Tasks :
          TrivialStep(t) =>
              /\ pc'[t] = "done"
              /\ via'[t] = "trivial"
              /\ A' = A
              /\ B' = B
              /\ \A u \in Tasks \ {t} : pc'[u] = pc[u] /\ desc'[u] = desc[u]
              /\ tid' = tid]_vars

C11_Witness ==
    \E t, u \in Tasks :
        /\ via[t] = "trivial" /\ pc[t] = "done" /\ loc[t].level < cutoff
        /\ via[u] = "trivial" /\ pc[u] = "done" /\ loc[u].level >= cutoff
        /\ loc[u].level > 0

\* The int values of an array
Keys(arr) == [x \in DOMAIN arr |-> Key(arr[x])]

\* my_mergesort(0, N-1) run on arr with B not yet written: the A it leaves
SerialSort(arr) ==
    my_mergesort([a |-> arr, b |-> [x \in DOMAIN arr |-> Junk]], 0, N - 1).a

\* C12. Idempotence: if the input is ascending, A holds the input's values
\* element for element when the root call returns; and sorting the A a sort
\* has left gives that A again.
C12_Idempotence ==
    RootReturned =>
        /\ is_sorted(input) => Keys(A) = Keys(input)
        /\ Keys(SerialSort(A)) = Keys(A)

C12_Witness ==
    /\ RootReturned
    /\ N = MaxN
    /\ via[LeftChild(Root)] = "fanout"
    /\ is_sorted(input)
    /\ Key(input[0]) < Key(input[N - 1])
    /\ Keys(A) = Keys(input)

\* arr is ascending on the indices lo..hi
SortedOn(arr, lo, hi) == \A x \in lo .. hi - 1 : Key(arr[x]) <= Key(arr[x + 1])

\* arr and brr hold the same values, each as often, on the indices lo..hi
SameMultisetOn(arr, brr, lo, hi) ==
    \A k \in 0 .. MaxKey :
        Cardinality({x \in lo .. hi : Key(arr[x]) = k})
            = Cardinality({x \in lo .. hi : Key(brr[x]) = k})

\* The precondition of merge, on the activation m and the array arr
MergePre(m, arr) ==
    /\ m.rs = m.le + 1
    /\ m.ls <= m.le
    /\ m.rs <= m.re
    /\ SortedOn(arr, m.ls, m.le)
    /\ SortedOn(arr, m.rs, m.re)

\* The activation of merge on task t's thread returns in this step
MergeReturns(t) == mrg[t].on /\ ~mrg'[t].on

\* C13. Merge postcondition: while a call of merge is in its loops, A[ls..re]
\* stays as it was on entry; and a call on adjacent, non-empty, ascending
\* halves returns with A[ls..re] ascending and holding the values it held
\* before the memcpy, hence on entry.
C13_MergePost ==
    [][\A t \in Tasks :
          /\ (mrg[t].on /\ mrg'[t].on) =>
                \A x \in mrg[t].ls .. mrg[t].re : A'[x] = A[x]
          /\ (MergeReturns(t) /\ MergePre(mrg[t], A)) =>
                /\ SortedOn(A', mrg[t].ls, mrg[t].re)
                /\ SameMultisetOn(A', A, mrg[t].ls, mrg[t].re)]_vars

C13_Witness ==
    /\ pc[Root] = "ret"
    /\ N = MaxN
    /\ ~is_sorted(input)
    /\ \E x \in 0 .. N - 1 : Key(A[x]) # Key(input[x])
    /\ Key(input[1]) > Key(input[2])

\* Task t's thread takes a step of merge
MergeStepOf(t) == mrg[t].on /\ mrg'[t] # mrg[t]

\* C14. Merge frame: every step of a call merge(ls, le, rs, re) reads and
\* writes A and B only at indices in [ls, re], and leaves every element of A
\* and of B outside [ls, re] as it was.
C14_MergeFrame ==
    [][\A t \in Tasks :
          MergeStepOf(t) =>
              /\ mrg[t].rs = mrg[t].le + 1
              /\ (AccA(t) \cup AccB(t)) \subseteq Window(t)
              /\ \A x \in (0 .. N - 1) \ Window(t) : A'[x] = A[x] /\ B'[x] = B[x]]_vars

C14_Witness ==
    \E t \in Tasks :
        /\ mrg[t].on
        /\ ~LoopRunning(mrg[t])
        /\ mrg[t].ls > 0
        /\ mrg[t].re = N - 1
        /\ \E u \in Tasks : mrg[u].on /\ mrg[u].re < mrg[t].ls /\ mrg[u].k > mrg[u].ls

\* C15. Merge precondition: whenever merge is running on a thread, called from
\* my_mergesort or after the joins of parallel_mergesort, its two subranges
\* are adjacent and non-empty and each is ascending in A.
C15_MergePreMet ==
    \A t \in Tasks : mrg[t].on => MergePre(mrg[t], A)

C15_Witness ==
    /\ pc[Root] = "merge"
    /\ mrg[Root].on
    /\ mrg[Root].k = mrg[Root].ls
    /\ N = MaxN
    /\ ~is_sorted(A)
    /\ \E t \in Tasks : via[t] = "serial" /\ pc[t] = "done" /\ loc[t].level > 0

\* [l1, r1] and [l2, r2] are the two halves of [left, right] cut at
\* left + (right - left) / 2
Split(left, right, l1, r1, l2, r2) ==
    /\ r1 = left + ((right - left) \div 2)
    /\ left <= r1
    /\ r1 < right
    /\ l1 = left
    /\ l2 = r1 + 1
    /\ r2 = right
    /\ (l1 .. r1) # {}
    /\ (l2 .. r2) # {}
    /\ (l1 .. r1) \cap (l2 .. r2) = {}
    /\ (l1 .. r1) \cup (l2 .. r2) = left .. right
    /\ Cardinality(l1 .. r1) < Cardinality(left .. right)
    /\ Cardinality(l2 .. r2) < Cardinality(left .. right)

\* The ranges of task t's two child descriptors are the halves of its own
FanOutSplit(t) ==
    Split(loc[t].left, loc[t].right,
          desc[LeftChild(t)].left, desc[LeftChild(t)].right,
          desc[RightChild(t)].left, desc[RightChild(t)].right)

\* Frame p of my_mergesort on task t's thread has split its range: the call
\* it is waiting for, or the merge it has called, carries a half or both
FrameSplit(t, p) ==
    LET f == stack[t][p]
        mid == f.left + ((f.right - f.left) \div 2)
    IN  /\ f.right > f.left
        /\ f.left <= mid
        /\ mid < f.right
        /\ p < Len(stack[t]) =>
              /\ f.at \in {"left", "right"}
              /\ f.at = "left" =>
                    /\ stack[t][p + 1].left = f.left
                    /\ stack[t][p + 1].right = mid
              /\ f.at = "right" =>
                    /\ stack[t][p + 1].left = mid + 1
                    /\ stack[t][p + 1].right = f.right
        /\ (f.at = "merge" /\ mrg[t].on) =>
              Split(f.left, f.right, mrg[t].ls, mrg[t].le, mrg[t].rs, mrg[t].re)

\* C16. Range partitioning: a range with right > left that has been split, by
\* the fan-out branch or by my_mergesort, was cut at
\* mid = left + (right - left) / 2 with left <= mid < right into [left, mid]
\* and [mid + 1, right], both non-empty, disjoint, smaller than the parent and
\* with union the parent; a task that fanned out has exactly its two children,
\* which carry these two ranges, and no other task has children.
C16_RangePartition ==
    /\ \A t \in Tasks :
          /\ via[t] = "fanout" =>
                /\ loc[t].right > loc[t].left
                /\ FanOutSplit(t)
                /\ pc[t] \notin {"create1", "create2"} =>
                      /\ tid[t] = <<LeftChild(t), RightChild(t)>>
                      /\ pc[LeftChild(t)] # "none"
                      /\ pc[RightChild(t)] # "none"
                /\ mrg[t].on =>
                      Split(loc[t].left, loc[t].right,
                            mrg[t].ls, mrg[t].le, mrg[t].rs, mrg[t].re)
          /\ (t # Root /\ pc[t] # "none") => via[t \div 2] = "fanout"
    /\ \A t \in Tasks : \A p \in 1 .. Len(stack[t]) :
          stack[t][p].at # "call" => FrameSplit(t, p)

C16_Witness ==
    /\ N = 3
    /\ via[Root] = "fanout"
    /\ desc[RightChild(Root)].left = desc[RightChild(Root)].right
    /\ \E t \in Tasks :
          /\ Len(stack[t]) = 2
          /\ stack[t][1].at = "right"
          /\ stack[t][2].left = stack[t][1].right

\* Task t has been handed a descriptor (allocated by the driver for the root,
\* by its parent's buildArgs otherwise)
Allocated(t) == desc[t] # NoDesc

\* Task t has passed the tests of lines 100 and 108 without fanning out
NoFanOut(t) ==
    /\ via[t] \in {"trivial", "serial"}
    /\ tid[t] = <<Uninit, Uninit>>
    /\ LeftChild(t) \in Tasks =>
          /\ ~Allocated(LeftChild(t))
          /\ pc[LeftChild(t)] = "none"
    /\ RightChild(t) \in Tasks =>
          /\ ~Allocated(RightChild(t))
          /\ pc[RightChild(t)] = "none"
    /\ ~TrivialRange(loc[t].left, loc[t].right) => via[t] = "serial"

\* C17. Depth bookkeeping: the root descriptor has level 0; every child
\* descriptor has its parent's level plus one; no task runs with
\* level > cutoff; a task whose level >= cutoff creates no task and sorts a
\* non-trivial range with my_mergesort on its own thread; with cutoff = 0 no
\* task is ever created and the result is that of my_mergesort(0, N - 1).
C17_DepthBookkeeping ==
    /\ desc[Root].level = 0
    /\ \A t \in Tasks \ {Root} :
          Allocated(t) => desc[t].level = loc[t \div 2].level + 1
    /\ \A t \in Tasks : pc[t] # "none" => desc[t].level <= cutoff
    /\ \A t \in Tasks :
          (via[t] # "none" /\ loc[t].level >= cutoff) => NoFanOut(t)
    /\ cutoff = 0 =>
          /\ \A t \in Tasks \ {Root} : pc[t] = "none" /\ ~Allocated(t)
          /\ RootReturned => A = SerialSort(input)

C17_Witness ==
    /\ RootReturned
    /\ N = MaxN
    /\ cutoff = 1
    /\ via[Root] = "fanout"
    /\ \A t \in {LeftChild(Root), RightChild(Root)} :
          /\ via[t] = "serial"
          /\ loc[t].level = cutoff
          /\ NoFanOut(t)

\* C18. Child descriptor lifecycle: a descriptor made by buildArgs during
\* fan-out belongs to the one task started with it; that task reads it on
\* entry, while it is allocated, and frees it exactly once as the last thing
\* it does, on whichever branch it returns through; no task is at a read of a
\* freed descriptor; and when the root call returns every such descriptor has
\* been freed.
C18_ChildDescriptorLifecycle ==
    \A t \in Tasks \ {Root} :
        /\ freed[t] <= 1
        /\ ~Allocated(t) => (freed[t] = 0 /\ pc[t] = "none")
        /\ Allocated(t) =>
              /\ via[t \div 2] = "fanout"
              /\ desc[t].live = (freed[t] = 0)
        /\ pc[t] = "entry" => (Allocated(t) /\ desc[t].live)
        /\ freed[t] = 1 <=> pc[t] = "done"
        /\ pc[t] = "done" => via[t] \in {"trivial", "serial", "fanout"}
        /\ RootReturned => (Allocated(t) => (freed[t] = 1 /\ ~desc[t].live))

C18_Witness ==
    /\ RootReturned
    /\ N = 3
    /\ cutoff = 1
    /\ via[LeftChild(Root)] = "serial"
    /\ via[RightChild(Root)] = "trivial"
    /\ \A t \in {LeftChild(Root), RightChild(Root)} :
          Allocated(t) /\ freed[t] = 1 /\ ~desc[t].live

\* C19. The root descriptor is left to the caller: parallel_mergesort does not
\* free the level 0 descriptor on any return path, so it is allocated until
\* the driver's free(arg) after the call, which frees it exactly once.
C19_RootLeftToCaller ==
    /\ desc[Root].level = 0
    /\ freed[Root] = 0
    /\ driverFreed <= 1
    /\ desc[Root].live = (driverFreed = 0)
    /\ driverFreed = 1 => RootReturned
    /\ bufLive = (driverFreed = 0)

C19_Witness ==
    /\ driverFreed = 1
    /\ ~desc[Root].live
    /\ freed[Root] = 0
    /\ via[Root] = "fanout"
    /\ cutoff = MaxCutoff

\* C20. No task outlives the sort: in every state from the return of the root
\* call on, each task created during the sort, at any depth, has returned; no
\* merge is in progress and no my_mergesort frame is left on any thread, so
\* nothing reads or writes A or B when the driver frees them, or afterwards.
C20_NoTaskOutlivesSort ==
    RootReturned =>
        /\ \A t \in Tasks \ {Root} :
              /\ pc[t] \in {"none", "done"}
              /\ Allocated(t) => pc[t] = "done"
        /\ \A t \in Tasks :
              /\ ~Running(t)
              /\ ~mrg[t].on
              /\ stack[t] = <<>>
              /\ AccA(t) \cup AccB(t) = {}
        /\ Live = {}

C20_Witness ==
    /\ ~bufLive
    /\ RootReturned
    /\ N = MaxN
    /\ cutoff = MaxCutoff
    /\ \A t \in Tasks \ {Root} : pc[t] = "done"
    /\ A # input

====
